---- MODULE Spec2Model ----
(***************************************************************************)
(* webdoc: the annotation-directive parser of main.go.  Go strings are     *)
(* modelled as sequences of one-character strings, so that splitting,      *)
(* trimming, case folding and prefix tests are computed character by       *)
(* character as the Go library computes them.  Offsets are 0-based as in   *)
(* Go; sequence indices are 1-based.                                       *)
(***************************************************************************)
EXTENDS Integers, Sequences, FiniteSets, TLC

VARIABLES
    pc,            \* control position of main / processGoFiles / processWebDocLines
    found,         \* processGoFiles: inside a wsdoc block
    lines,         \* processGoFiles: the lines saved since the start sentinel
    sa,            \* processWebDocLines: the block being processed
    i,             \* processWebDocLines: index of the next line of sa (1-based)
    d,             \* processWebDocLines: the DirectiveData under construction
    TOC,           \* IndexData.TOC
    WSTypeFactory, \* the type registry: type name -> ordered fields
    nscan,         \* number of lines read so far (bounded by MaxScan)
    nblocks,       \* history: blocks completed (end sentinel read inside a block)
    nrender,       \* history: calls of generateHTMLRefPage
    hcall,         \* history: handler invocations of the last processed line
    err,           \* the runtime error that ended the program, if any
    tin,           \* argument of the last AnalyzeType call
    tout,          \* result of the last AnalyzeType call
    lvT,           \* type of the last ListVars call
    lv             \* result of the last ListVars call

vars == <<pc, found, lines, sa, i, d, TOC, WSTypeFactory, nscan, nblocks, nrender,
          hcall, err, tin, tout, lvT, lv>>

-----------------------------------------------------------------------------
(* Go string primitives used by main.go *)

Range(s) == {s[k] : k \in 1..Len(s)}

\* s[n:]
Drop(s, n) == SubSeq(s, n + 1, Len(s))

\* s[:n]
Take(s, n) == SubSeq(s, 1, n)

\* sub occurs in s at 0-based offset k
OccursAt(s, sub, k) == k + Len(sub) <= Len(s) /\ SubSeq(s, k + 1, k + Len(sub)) = sub

\* strings.Index: offset of the first occurrence of sub in s, -1 if none
Index(s, sub) ==
    IF \E k \in 0..Len(s) : OccursAt(s, sub, k)
    THEN CHOOSE k \in 0..Len(s) :
             OccursAt(s, sub, k) /\ \A m \in 0..(k - 1) : ~OccursAt(s, sub, m)
    ELSE -1

\* strings.Contains
Contains(s, sub) == Index(s, sub) >= 0

\* strings.Split for a non-empty separator: the pieces around every occurrence
RECURSIVE Split(_, _)
Split(s, sep) ==
    LET k == Index(s, sep)
    IN  IF k < 0 THEN <<s>>
        ELSE <<Take(s, k)>> \o Split(Drop(s, k + Len(sep)), sep)

\* unicode.IsSpace on the characters of the model's alphabet
IsSpace(c) == c \in {" ", "\t"}

RECURSIVE TrimLeft(_)
TrimLeft(s) == IF s # <<>> /\ IsSpace(Head(s)) THEN TrimLeft(Tail(s)) ELSE s

RECURSIVE TrimRight(_)
TrimRight(s) ==
    IF s # <<>> /\ IsSpace(s[Len(s)]) THEN TrimRight(Take(s, Len(s) - 1)) ELSE s

\* strings.TrimSpace
TrimSpace(s) == TrimRight(TrimLeft(s))

UpperLetters == <<"A","B","C","D","E","F","G","H","I","J","K","L","M","N","O","P","Q","R","S","T","U","V","W","X","Y","Z">>

LowerLetters == <<"a","b","c","d","e","f","g","h","i","j","k","l","m","n","o","p","q","r","s","t","u","v","w","x","y","z">>

Digits == <<"0","1","2","3","4","5","6","7","8","9">>

LowerChar(c) ==
    IF c \in Range(UpperLetters)
    THEN LowerLetters[CHOOSE k \in 1..Len(UpperLetters) : UpperLetters[k] = c]
    ELSE c

\* strings.ToLower
ToLower(s) == [k \in 1..Len(s) |-> LowerChar(s[k])]

\* rlib.Stripchars: str without the characters that occur in chr
Stripchars(str, chr) == SelectSeq(str, LAMBDA c : c \notin Range(chr))

\* the characters of the model in byte order, for the < of Go strings
ByteOrder ==
    <<"\t"," ","\"","&",".","/">> \o Digits \o <<":","<","=",">","?","@">> \o UpperLetters \o <<"[","]","_">> \o LowerLetters \o <<"{","}">>

Byte(c) == CHOOSE k \in 1..Len(ByteOrder) : ByteOrder[k] = c

\* a < b on Go strings: bytewise lexicographic
RECURSIVE StrLess(_, _)
StrLess(a, b) ==
    IF b = <<>> THEN FALSE
    ELSE IF a = <<>> THEN TRUE
    ELSE IF Head(a) = Head(b) THEN StrLess(Tail(a), Tail(b))
    ELSE Byte(Head(a)) < Byte(Head(b))

-----------------------------------------------------------------------------
(* The glossary (its loader and lookups live outside main.go): a read-only *)
(* dictionary with exact-match lookup, empty text for a missing term.      *)

Glossary ==
    [term \in {<<"i","d">>, <<"n">>, <<"b","u","i">>} |->
        CASE term = <<"i","d">>  -> <<"i","t","e","m"," ","i","d","e","n","t","i","f","i","e","r">>
          [] term = <<"n">>   -> <<"p","a","g","e"," ","s","i","z","e">>
          [] term = <<"b","u","i">> -> <<"b","u","s","i","n","e","s","s"," ","u","n","i","t">>]

getDefinition(term) == IF term \in DOMAIN Glossary THEN Glossary[term] ELSE <<>>

IsGlossaryTerm(word) == word \in DOMAIN Glossary

-----------------------------------------------------------------------------
(* Type registry and struct introspection *)

\* a field of a registered struct: its name and the String() of its type
Fld(name, type) == [Name |-> name, Type |-> type]

\* Type registries: each maps a type name to the ordered fields of its struct.  All are acyclic.
RegistryNested ==
    [t \in {<<"O","u","t","e","r">>, <<"I","n","n","e","r">>, <<"L","e","a","f">>} |->
        CASE t = <<"O","u","t","e","r">> -> << Fld(<<"I","n">>, <<"p","k","g",".","I","n","n","e","r">>), Fld(<<"N","a","m","e">>, <<"s","t","r","i","n","g">>),
                                Fld(<<"L","e","a","v","e","s">>, <<"[","]","p","k","g",".","L","e","a","f">>) >>
          [] t = <<"I","n","n","e","r">> -> << Fld(<<"L">>, <<"*","p","k","g",".","L","e","a","f">>), Fld(<<"N">>, <<"i","n","t","6","4">>) >>
          [] t = <<"L","e","a","f">>  -> << Fld(<<"V">>, <<"s","t","r","i","n","g">>) >>]

RegistryFlat ==
    [t \in {<<"O","u","t","e","r">>, <<"L","e","a","f">>} |->
        CASE t = <<"O","u","t","e","r">> -> << Fld(<<"N","a","m","e">>, <<"s","t","r","i","n","g">>), Fld(<<"W","h","e","n">>, <<"t","i","m","e",".","T","i","m","e">>),
                                Fld(<<"T","a","g","s">>, <<"m","a","p","[","s","t","r","i","n","g","]","[","]","p","k","g",".","L","e","a","f">>),
                                Fld(<<"M">>, <<"m","a","p","[","a",".","K","e","y","]","p","k","g",".","L","e","a","f">>) >>
          [] t = <<"L","e","a","f">>  -> << Fld(<<"V">>, <<"[","]","s","t","r","i","n","g">>), Fld(<<"W">>, <<"i","n","t">>) >>]

RegistryChain ==
    [t \in {<<"A">>, <<"B">>, <<"C">>} |->
        CASE t = <<"A">> -> << Fld(<<"X">>, <<"i","n","t">>), Fld(<<"B","1">>, <<"p","k","g",".","B">>), Fld(<<"B","2">>, <<"[","]","p","k","g",".","B">>) >>
          [] t = <<"B">> -> << Fld(<<"C","1">>, <<"p","k","g",".","C">>) >>
          [] t = <<"C">> -> << >>]

Registries == {RegistryNested, RegistryFlat, RegistryChain}

\* one &nbsp;&nbsp;&nbsp;&nbsp; indentation unit
Indent == <<"&","n","b","s","p",";","&","n","b","s","p",";","&","n","b","s","p",";","&","n","b","s","p",";">>

\* AnalyzeType(t) with the registry's key set
AnalyzeType(t) ==
    LET pos   == Index(t, <<"[","]">>)
        T1    == IF pos >= 0 THEN Drop(t, 2 + pos) ELSE t
        dot   == Index(T1, <<".">>)
        Tname == IF dot >= 0 THEN Drop(T1, dot + 1) ELSE T1
    IN  [IsSlice |-> pos >= 0, Recurse |-> Tname \in DOMAIN WSTypeFactory, Tname |-> Tname]

\* ListVars with the nested descriptors appended after all of the type's own fields
\* instead of right after their parent
RECURSIVE ListVarsSiblingsFirst(_, _)
ListVarsSiblingsFirst(tname, prefix0) ==
    LET fields == WSTypeFactory[tname]
        prefix == Indent \o prefix0
        own[j \in 1..Len(fields)] ==
            LET a  == AnalyzeType(fields[j].Type)
                sl == IF a.IsSlice THEN <<"[","]">> ELSE <<>>
            IN  [Field      |-> prefix \o fields[j].Name,
                 DataType   |-> sl \o a.Tname,
                 Definition |-> getDefinition(prefix \o fields[j].Name),
                 Optional   |-> FALSE]
        sub[j \in 1..Len(fields)] ==
            LET a == AnalyzeType(fields[j].Type)
            IN  IF a.Recurse
                THEN ListVarsSiblingsFirst(a.Tname, prefix \o a.Tname \o <<".">>)
                ELSE <<>>
        cat[j \in 0..Len(fields)] == IF j = 0 THEN <<>> ELSE cat[j - 1] \o sub[j]
    IN  [j \in 1..Len(fields) |-> own[j]] \o cat[Len(fields)]

\* ListVars on a fresh instance of the registered type tname; each element is a
\* ProtocolJSON (Optional is never set)
RECURSIVE ListVars(_, _)
ListVars(tname, prefix0) ==
    LET fields == WSTypeFactory[tname]
        prefix == Indent \o prefix0
        one[j \in 1..Len(fields)] ==
            LET a  == AnalyzeType(fields[j].Type)
                sl == IF a.IsSlice THEN <<"[","]">> ELSE <<>>
                p  == [Field      |-> prefix \o fields[j].Name,
                       DataType   |-> sl \o a.Tname,
                       Definition |-> getDefinition(prefix \o fields[j].Name),
                       Optional   |-> FALSE]
            IN  <<p>> \o (IF a.Recurse
                          THEN ListVars(a.Tname, prefix \o a.Tname \o <<".">>)
                          ELSE <<>>)
        cat[j \in 0..Len(fields)] == IF j = 0 THEN <<>> ELSE cat[j - 1] \o one[j]
    IN  cat[Len(fields)]

-----------------------------------------------------------------------------
(* The glossary tokenizer *)

IsLetter(c) == c \in Range(UpperLetters) \cup Range(LowerLetters) \cup {"_"}

IsDigit(c) == c \in Range(Digits)

\* length of the longest prefix of s made of identifier characters
RECURSIVE IdentLen(_)
IdentLen(s) ==
    IF s # <<>> /\ (IsLetter(Head(s)) \/ IsDigit(Head(s))) THEN 1 + IdentLen(Tail(s)) ELSE 0

\* length of the longest prefix of s made of digits
RECURSIVE DigitLen(_)
DigitLen(s) == IF s # <<>> /\ IsDigit(Head(s)) THEN 1 + DigitLen(Tail(s)) ELSE 0

\* text/scanner's Scan with the default mode, repeated up to EOF: the token texts
\* of src.  White space separates tokens; an identifier and a run of digits are one
\* token each; any other character of the model's texts (":" among them) is a
\* token of its own.  The texts of the model hold no quote, no "/" and no ".".
RECURSIVE ScanTokens(_)
ScanTokens(src) ==
    IF src = <<>> THEN <<>>
    ELSE IF IsSpace(Head(src)) THEN ScanTokens(Tail(src))
    ELSE LET n == IF IsLetter(Head(src)) THEN IdentLen(src)
                  ELSE IF IsDigit(Head(src)) THEN DigitLen(src)
                  ELSE 1
         IN  <<Take(src, n)>> \o ScanTokens(Drop(src, n))

\* the loop of handleGlossaryTerms from token k on, s2 being the text so far;
\* past the last token Scan returns EOF with an empty TokenText
RECURSIVE GlossaryLoop(_, _, _)
GlossaryLoop(toks, k, s2) ==
    IF k > Len(toks) THEN s2 \o <<" ">>
    ELSE IF toks[k] = <<":">>
    THEN IF k + 1 > Len(toks) THEN s2 \o <<":">>
         ELSE GlossaryLoop(toks, k + 2,
                  IF IsGlossaryTerm(toks[k + 1])
                  THEN s2 \o <<" ","<","s","p","a","n"," ","c","l","a","s","s","=","\"","g","l","o","s","s","a","r","y","\"",">">> \o toks[k + 1] \o <<"<","/","s","p","a","n",">">>
                  ELSE s2 \o <<" ">> \o toks[k + 1])
    ELSE GlossaryLoop(toks, k + 1, s2 \o <<" ">> \o toks[k])

handleGlossaryTerms(src) == GlossaryLoop(ScanTokens(src), 1, <<>>)

-----------------------------------------------------------------------------
(* Directive handlers.  A handler gets the trimmed comment text s, the Cmd  *)
(* of the Directives entry that matched and the record; it yields the new   *)
(* record, or panics.                                                       *)

Done(r) == [panic |-> FALSE, d |-> r]

Panicked(r) == [panic |-> TRUE, d |-> r]

GET == <<"G","E","T">>

POST == <<"P","O","S","T">>

\* the loop of handleW2UIreq over the pieces sa from piece k on: ssa[1] of a piece
\* without ":" is an index out of range
RECURSIVE W2UIreqLoop(_, _, _)
W2UIreqLoop(sa0, k, parts) ==
    IF k > Len(sa0) THEN [panic |-> FALSE, Parts |-> parts]
    ELSE LET ssa == Split(sa0[k], <<":">>)
         IN  IF Len(ssa) < 2 THEN [panic |-> TRUE, Parts |-> parts]
             ELSE W2UIreqLoop(sa0, k + 1,
                      Append(parts, [Term       |-> ssa[1],
                                     Definition |-> Stripchars(ssa[2], <<"\"","<",">","}">>)]))

handleW2UIreq(s, parts) == W2UIreqLoop(Split(Drop(s, Len(<<"r","e","q","u","e","s","t","=","{">>)), <<",">>), 1, parts)

\* the path loop of handleURL
RECURSIVE URLPathLoop(_, _, _)
URLPathLoop(segs, k, parts) ==
    IF k > Len(segs) THEN parts
    ELSE URLPathLoop(segs, k + 1,
             IF Contains(segs[k], <<":">>)
             THEN LET term == Stripchars(segs[k], <<":">>)
                  IN  Append(parts, [Term       |-> term,
                                     Definition |-> getDefinition(ToLower(term))])
             ELSE parts)

\* the query loop of handleURL
RECURSIVE URLQueryLoop(_, _, _)
URLQueryLoop(sb, k, parts) ==
    IF k > Len(sb) THEN [panic |-> FALSE, Parts |-> parts]
    ELSE IF Contains(sb[k], <<"r","e","q","u","e","s","t","=","{">>)
    THEN LET r == handleW2UIreq(sb[k], parts)
         IN  IF r.panic THEN r ELSE URLQueryLoop(sb, k + 1, r.Parts)
    ELSE LET sc == Split(sb[k], <<"=">>)
         IN  URLQueryLoop(sb, k + 1,
                 IF Len(sc) > 1 /\ Contains(sc[2], <<":">>)
                 THEN LET term == Stripchars(sc[2], <<":">>)
                      IN  Append(parts, [Term       |-> term,
                                         Definition |-> getDefinition(term)])
                 ELSE parts)

handleURL(s, cmd, r) ==
    LET url  == TrimSpace(Drop(s, Len(cmd)))
        s1   == Split(url, <<"?">>)
        path == URLPathLoop(Split(s1[1], <<"/">>), 1, <<>>)
        q    == IF Len(s1) > 1 THEN URLQueryLoop(Split(s1[2], <<"&">>), 1, path)
                ELSE [panic |-> FALSE, Parts |-> path]
    IN  IF q.panic THEN Panicked(r)
        ELSE Done([r EXCEPT !.URLs = Append(@, [URL |-> url, Parts |-> q.Parts])])

\* handleTitle deriving the ID without lowercasing the title
handleTitleNoLower(s, cmd, r) ==
    LET title == TrimSpace(Drop(s, Len(cmd)))
        id    == Stripchars(title, <<" ">>)
    IN  Done([r EXCEPT !.Title = title, !.ID = id, !.Filename = id \o <<".","h","t","m","l">>])

handleTitle(s, cmd, r) ==
    LET title == TrimSpace(Drop(s, Len(cmd)))
        id    == Stripchars(ToLower(title), <<" ">>)
    IN  Done([r EXCEPT !.Title = title, !.ID = id, !.Filename = id \o <<".","h","t","m","l">>])

handleSynopsis(s, cmd, r) == Done([r EXCEPT !.Synopsis = TrimSpace(Drop(s, Len(cmd)))])

handleDescription(s, cmd, r) ==
    LET s1 == TrimSpace(Drop(s, Len(cmd)))
        s2 == handleGlossaryTerms(s1)
    IN  Done([r EXCEPT !.Description = IF Len(@) = 0 THEN s2 ELSE @ \o <<" ">> \o s2])

\* handleMethod appending the methods in the order the text names them
handleMethodTextOrder(s, cmd, r) ==
    LET t    == ToLower(TrimSpace(Drop(s, Len(cmd))))
        g    == Index(t, <<"g","e","t">>)
        p    == Index(t, <<"p","o","s","t">>)
        both == IF p < g THEN <<POST, GET>> ELSE <<GET, POST>>
    IN  Done([r EXCEPT !.Method =
                 IF g >= 0 /\ p >= 0 THEN @ \o both
                 ELSE IF g >= 0 THEN Append(@, GET)
                 ELSE IF p >= 0 THEN Append(@, POST)
                 ELSE @])

handleMethod(s, cmd, r) ==
    LET t  == ToLower(TrimSpace(Drop(s, Len(cmd))))
        m1 == IF Contains(t, <<"g","e","t">>) THEN Append(r.Method, GET) ELSE r.Method
        m2 == IF Contains(t, <<"p","o","s","t">>) THEN Append(m1, POST) ELSE m1
    IN  Done([r EXCEPT !.Method = m2])

\* the loop of getStructDef over the space-separated tokens ss from token k on
RECURSIVE StructDefLoop(_, _)
StructDefLoop(ss, k) ==
    IF k > Len(ss) THEN <<>>
    ELSE LET t == TrimSpace(ss[k])
         IN  IF Len(t) = 0 THEN StructDefLoop(ss, k + 1)
             ELSE IF t \in DOMAIN WSTypeFactory THEN ListVars(t, <<>>)
             ELSE IF ToLower(t) = <<"s","t","r","i","n","g">>
             THEN << [Field |-> <<"d","a","t","a">>, DataType |-> <<"s","t","r","i","n","g">>, Definition |-> <<>>,
                      Optional |-> FALSE] >>
             ELSE StructDefLoop(ss, k + 1)

getStructDef(s) == StructDefLoop(Split(s, <<" ">>), 1)

\* GenExample is defined outside main.go: some example text made from s
GenExample(s) == <<"{">> \o s \o <<"}">>

handleInput(s, cmd, r) ==
    LET s1 == TrimSpace(Drop(s, Len(cmd)))
    IN  Done([r EXCEPT !.Input = getStructDef(s1), !.InputEx = GenExample(s1)])

handleResponse(s, cmd, r) ==
    LET s1 == TrimSpace(Drop(s, Len(cmd)))
    IN  Done([r EXCEPT !.Response = getStructDef(s1), !.ResponseEx = GenExample(s1)])

DirectivesDescFirst ==
    << [Cmd |-> <<"@","t","i","t","l","e">>,       Handler |-> "handleTitle"],
       [Cmd |-> <<"@","u","r","l">>,         Handler |-> "handleURL"],
       [Cmd |-> <<"@","s","y","n","o","p","s","i","s">>,    Handler |-> "handleSynopsis"],
       [Cmd |-> <<"@","m","e","t","h","o","d">>,      Handler |-> "handleMethod"],
       [Cmd |-> <<"@","d","e","s","c">>,        Handler |-> "handleDescription"],
       [Cmd |-> <<"@","d","e","s","c","r","i","p","t","i","o","n">>, Handler |-> "handleDescription"],
       [Cmd |-> <<"@","i","n","p","u","t">>,       Handler |-> "handleInput"],
       [Cmd |-> <<"@","r","e","s","p","o","n","s","e">>,    Handler |-> "handleResponse"] >>

Directives ==
    << [Cmd |-> <<"@","t","i","t","l","e">>,       Handler |-> "handleTitle"],
       [Cmd |-> <<"@","u","r","l">>,         Handler |-> "handleURL"],
       [Cmd |-> <<"@","s","y","n","o","p","s","i","s">>,    Handler |-> "handleSynopsis"],
       [Cmd |-> <<"@","m","e","t","h","o","d">>,      Handler |-> "handleMethod"],
       [Cmd |-> <<"@","d","e","s","c","r","i","p","t","i","o","n">>, Handler |-> "handleDescription"],
       [Cmd |-> <<"@","d","e","s","c">>,        Handler |-> "handleDescription"],
       [Cmd |-> <<"@","i","n","p","u","t">>,       Handler |-> "handleInput"],
       [Cmd |-> <<"@","r","e","s","p","o","n","s","e">>,    Handler |-> "handleResponse"] >>

\* Directives[j].Handler(s, &Directives[j])
CallHandler(j, s, r) ==
    LET h   == Directives[j].Handler
        cmd == Directives[j].Cmd
    IN  CASE h = "handleTitle"       -> handleTitle(s, cmd, r)
          [] h = "handleURL"         -> handleURL(s, cmd, r)
          [] h = "handleSynopsis"    -> handleSynopsis(s, cmd, r)
          [] h = "handleMethod"      -> handleMethod(s, cmd, r)
          [] h = "handleDescription" -> handleDescription(s, cmd, r)
          [] h = "handleInput"       -> handleInput(s, cmd, r)
          [] h = "handleResponse"    -> handleResponse(s, cmd, r)

None == <<"none">>

EmptyData ==
    [Title |-> <<>>, URLs |-> <<>>, Synopsis |-> <<>>, Method |-> <<>>,
     Description |-> <<>>, Input |-> <<>>, InputEx |-> <<>>, Response |-> <<>>,
     ResponseEx |-> <<>>, Filename |-> <<>>, ID |-> <<>>]

-----------------------------------------------------------------------------
(* processWebDocLines, one step per line of the block and one for the       *)
(* hand-off after the loop                                                  *)

\* the entries of Directives whose Cmd the lowercased text starts with
Matching(s) == {j \in 1..Len(Directives) : Index(ToLower(s), Directives[j].Cmd) = 0}

FirstMatching(s) == CHOOSE j \in Matching(s) : \A m \in Matching(s) : j <= m

\* one iteration of the loop over sa
ProcessLine ==
    /\ pc = "process"
    /\ i <= Len(sa)
    /\ LET ss == Split(sa[i], <<"/","/">>)
       IN  IF Len(ss) < 2 \/ Matching(TrimSpace(ss[2])) = {}
           THEN /\ hcall' = <<>>
                /\ i' = i + 1
                /\ UNCHANGED <<pc, d, err>>
           ELSE LET s == TrimSpace(ss[2])
                    j == FirstMatching(s)
                    r == CallHandler(j, s, d)
                IN  /\ hcall' = <<[cmd |-> Directives[j].Cmd, s |-> s]>>
                    /\ IF r.panic
                       THEN /\ pc' = "panic"
                            /\ err' = "index out of range"
                            /\ UNCHANGED <<i, d>>
                       ELSE /\ d' = r.d
                            /\ i' = i + 1
                            /\ UNCHANGED <<pc, err>>
    /\ UNCHANGED <<found, lines, sa, TOC, WSTypeFactory, nscan, nblocks, nrender,
                   tin, tout, lvT, lv>>

\* what generateHTMLRefPage can meet: the page is written; os.Create fails; the
\* template file cannot be loaded (ParseFiles returns a nil template, whose Execute
\* dereferences it); executing the template fails
RenderOutcomes == {"ok", "create fails", "template missing", "execute fails"}

\* the end of processWebDocLines: generateHTMLRefPage(&d), the append to
\* IndexData.TOC, and back in processGoFiles found = false, lines = []string{}
HandOff ==
    /\ pc = "process"
    /\ i > Len(sa)
    /\ nrender' = nrender + 1
    /\ \E o \in RenderOutcomes :
          IF o = "template missing"
          THEN /\ pc' = "panic"
               /\ err' = "nil pointer dereference"
               /\ UNCHANGED <<TOC, found, lines>>
          ELSE /\ TOC' = Append(TOC, d)
               /\ found' = FALSE
               /\ lines' = <<>>
               /\ pc' = "scan"
               /\ UNCHANGED err
    /\ UNCHANGED <<sa, i, d, WSTypeFactory, nscan, nblocks, hcall, tin, tout, lvT, lv>>

-----------------------------------------------------------------------------
(* processGoFiles and main *)

isCommentContaining(s, target) ==
    LET ss == Split(s, <<"/","/">>)
    IN  IF Len(ss) < 2 THEN FALSE ELSE Index(TrimSpace(ss[2]), target) = 0

\* lines of the files scanned by the runs of Spec
RunLines ==
    { <<"/","/"," ","w","s","d","o","c"," ","{">>,
      <<"/","/"," ","w","s","d","o","c"," ","}">>,
      <<"f","u","n","c"," ","f","(",")"," ","{">>,
      <<"/","/"," ","@","t","i","t","l","e"," ","I","t","e","m">>,
      <<"/","/"," ","@","u","r","l"," ","/","v","1","/","i","t","e","m","?","r","e","q","u","e","s","t","=","{","m","a","x","}">> }

\* lines read per run
MaxScan == 6

\* one iteration of the scanner loop of processGoFiles on the line s; reading the
\* end sentinel calls processWebDocLines(lines), which returns at once on an empty
\* block and otherwise starts its loop with a fresh DirectiveData
ScanLine ==
    /\ pc = "scan"
    /\ nscan < MaxScan
    /\ nscan' = nscan + 1
    /\ \E s \in RunLines :
          IF ~found
          THEN /\ found' = isCommentContaining(s, <<"w","s","d","o","c"," ","{">>)
               /\ UNCHANGED <<pc, lines, sa, i, d, nblocks>>
          ELSE IF isCommentContaining(s, <<"w","s","d","o","c"," ","}">>)
          THEN /\ nblocks' = nblocks + 1
               /\ IF Len(lines) = 0
                  THEN /\ found' = FALSE
                       /\ lines' = <<>>
                       /\ UNCHANGED <<pc, sa, i, d>>
                  ELSE /\ pc' = "process"
                       /\ sa' = lines
                       /\ i' = 1
                       /\ d' = EmptyData
                       /\ UNCHANGED <<found, lines>>
          ELSE /\ lines' = Append(lines, s)
               /\ UNCHANGED <<pc, found, sa, i, d, nblocks>>
    /\ UNCHANGED <<TOC, WSTypeFactory, nrender, hcall, err, tin, tout, lvT, lv>>

\* the scanner reaches the end of the file: processGoFiles returns and filepath.Walk
\* calls it on the next file, with found and lines fresh
NextFile ==
    /\ pc = "scan"
    /\ found' = FALSE
    /\ lines' = <<>>
    /\ UNCHANGED <<pc, sa, i, d, TOC, WSTypeFactory, nscan, nblocks, nrender, hcall, err,
                   tin, tout, lvT, lv>>

\* filepath.Walk returns at the end of a file (the tree is exhausted, or
\* processGoFiles returned an error) and main calls generateDocIndexPage
WalkReturns ==
    /\ pc = "scan"
    /\ pc' = "index"
    /\ UNCHANGED <<found, lines, sa, i, d, TOC, WSTypeFactory, nscan, nblocks, nrender,
                   hcall, err, tin, tout, lvT, lv>>

\* DirDataSlice.Less
Less(a, b) == StrLess(a.Title, b.Title)

\* the results sort.Sort(IndexData.TOC) can leave: the orderings of toc in which no
\* entry is Less than an earlier one (sort.Sort is not stable)
Sorted(toc) ==
    LET n     == Len(toc)
        Perms == {f \in [1..n -> 1..n] : \A a, b \in 1..n : a # b => f[a] # f[b]}
    IN  { [k \in 1..n |-> toc[f[k]]] : f \in
            {g \in Perms : \A a, b \in 1..n : a < b => ~Less(toc[g[b]], toc[g[a]])} }

\* generateDocIndexPage: os.Create fails and it returns before sorting; or it sorts
\* the table of contents and then loads and executes the template as
\* generateHTMLRefPage does
generateDocIndexPage ==
    /\ pc = "index"
    /\ \E o \in RenderOutcomes :
          IF o = "create fails"
          THEN pc' = "done" /\ UNCHANGED <<TOC, err>>
          ELSE /\ TOC' \in Sorted(TOC)
               /\ IF o = "template missing"
                  THEN pc' = "panic" /\ err' = "nil pointer dereference"
                  ELSE pc' = "done" /\ UNCHANGED err
    /\ UNCHANGED <<found, lines, sa, i, d, WSTypeFactory, nscan, nblocks, nrender, hcall,
                   tin, tout, lvT, lv>>

Init ==
    /\ pc = "scan"
    /\ found = FALSE /\ lines = <<>> /\ sa = <<>> /\ i = 1 /\ d = EmptyData
    /\ TOC = <<>> /\ WSTypeFactory = RegistryNested
    /\ nscan = 0 /\ nblocks = 0 /\ nrender = 0 /\ hcall = <<>> /\ err = "none"
    /\ tin = None /\ tout = None /\ lvT = None /\ lv = None

Next ==
    \/ ScanLine
    \/ ProcessLine
    \/ HandOff
    \/ NextFile
    \/ WalkReturns
    \/ generateDocIndexPage

Spec == Init /\ [][Next]_vars

-----------------------------------------------------------------------------
(* C1 *)

\* C1: every completed block produces exactly one record, handed to the renderer
\* once and appended to the table of contents once, whether or not rendering
\* fails: outside block processing the table of contents has as many entries as
\* there were completed blocks, and the renderer was called as often.
C1_OneRecordPerBlock ==
    pc \in {"scan", "index", "done", "panic"} => Len(TOC) = nblocks /\ nrender = nblocks

-----------------------------------------------------------------------------
(* C2 *)

\* C2: no line or handler failure aborts block processing: each step of the loop
\* of processWebDocLines goes on to the next line (and so to the hand-off).
C2_NoLineAborts ==
    [][pc = "process" /\ i <= Len(sa) => pc' = "process" /\ i' = i + 1]_vars

-----------------------------------------------------------------------------
(* Blocks handed to processWebDocLines: the specifications below start where *)
(* processGoFiles has read a block's end sentinel and called it.             *)

\* lines of a block: every keyword, in either case, with and without text after it,
\* with code before the comment marker, with a second marker, and lines that carry
\* no directive
BlockLines ==
    { <<"/","/"," ","@","t","i","t","l","e"," ","M","y"," ","S","v","c">>,
      <<"/","/","@","T","i","t","l","e"," ","a"," ","B"," ">>,
      <<"/","/"," ","@","t","i","t","l","e">>,
      <<"/","/"," ","@","u","r","l"," ","/","v","1","/",":","I","D">>,
      <<"/","/"," ","@","u","r","l"," ","h","t","t","p",":","/","/","h","/",":","I","D">>,
      <<"x"," ",":","="," ","1"," ","/","/"," ","@","s","y","n","o","p","s","i","s"," ","o","n","e">>,
      <<"/","/"," ","@","m","e","t","h","o","d"," ","G","E","T">>,
      <<"/","/"," ","@","m","e","t","h","o","d"," ","p","o","s","t"," ","o","r"," ","g","e","t">>,
      <<"/","/"," ","@","M","E","T","H","O","D"," ","p","u","t">>,
      <<"/","/"," ","@","m","e","t","h","o","d"," ","g","e","t"," ","/","/","p","o","s","t">>,
      <<"/","/"," ","@","d","e","s","c","r","i","p","t","i","o","n"," ","s","e","e"," ",":","i","d">>,
      <<"/","/"," ","@","d","e","s","c"," ","m","o","r","e">>,
      <<"/","/"," ","@","d","e","s","c","r"," ","x">>,
      <<"/","/"," ","@","i","n","p","u","t"," ","O","u","t","e","r">>,
      <<"/","/"," ","@","r","e","s","p","o","n","s","e"," ","a"," ","s","t","r","i","n","g">>,
      <<"/","/"," ","n","o","t","e">>,
      <<"/","/"," ","/","/","@","t","i","t","l","e"," ","x">>,
      <<"/","/">>,
      <<"x"," ",":","="," ","1">> }

\* lines per block
MaxBlock == 2

RECURSIVE SeqsUpTo(_, _)
SeqsUpTo(S, n) ==
    IF n = 0 THEN {<<>>}
    ELSE LET shorter == SeqsUpTo(S, n - 1)
         IN  shorter \cup {Append(q, x) : q \in {r \in shorter : Len(r) = n - 1}, x \in S}

\* processGoFiles has read "wsdoc {", the lines of block and "wsdoc }"
BlockStarted(block) ==
    /\ pc = "process"
    /\ found = TRUE /\ lines = block /\ sa = block /\ i = 1 /\ d = EmptyData
    /\ TOC = <<>> /\ WSTypeFactory = RegistryNested
    /\ nscan = Len(block) + 2 /\ nblocks = 1 /\ nrender = 0 /\ hcall = <<>>
    /\ err = "none"
    /\ tin = None /\ tout = None /\ lvT = None /\ lv = None

InitBlock == \E block \in SeqsUpTo(BlockLines, MaxBlock) \ {<<>>} : BlockStarted(block)

NextBlock == ProcessLine \/ HandOff

SpecBlock == InitBlock /\ [][NextBlock]_vars

\* @url lines: a path, alone or with a query of one or two parameters
UrlPaths == { <<"/","v","1","/","i","t","e","m">>, <<"/","v","1","/",":","I","D">>, <<"/",":","B","U","I","/","x","/",":","i","d">> }

UrlParams ==
    { <<"l","i","m","i","t","=",":","N">>,
      <<"d","t","=",":","i","d">>,
      <<"x","=","5">>,
      <<"r","e","q","u","e","s","t","=","{","\"","s","e","a","r","c","h","\"",":","\"","f","r","e","e"," ","t","e","x","t","\"",",","\"","m","a","x","\"",":","\"","1","0","\"","}">>,
      <<"r","e","q","u","e","s","t","=","{","\"","a","t","\"",":","\"","1","0",":","3","0","\"","}">>,
      <<"r","e","q","u","e","s","t","=","{","m","a","x","}">> }

UrlQueries == UrlParams \cup {p \o <<"&">> \o q : p, q \in UrlParams}

UrlLines ==
    {<<"/","/"," ","@","u","r","l"," ">> \o p : p \in UrlPaths}
        \cup {<<"/","/"," ","@","u","r","l"," ">> \o p \o <<"?">> \o q : p \in UrlPaths, q \in UrlQueries}

InitURL == \E line \in UrlLines : BlockStarted(<<line>>)

SpecURL == InitURL /\ [][NextBlock]_vars

-----------------------------------------------------------------------------
(* What the specification says of a line *)

HasPrefix(s, p) == Len(p) <= Len(s) /\ Take(s, Len(p)) = p

\* the keyword list of the specification, in its order
Keywords ==
    << <<"@","t","i","t","l","e">>, <<"@","u","r","l">>, <<"@","s","y","n","o","p","s","i","s">>, <<"@","m","e","t","h","o","d">>, <<"@","d","e","s","c","r","i","p","t","i","o","n">>, <<"@","d","e","s","c">>,
       <<"@","i","n","p","u","t">>, <<"@","r","e","s","p","o","n","s","e">> >>

HasMarker(line) == Contains(line, <<"/","/">>)

\* everything after the first comment marker, trimmed
Remainder(line) == TrimSpace(Drop(line, Index(line, <<"/","/">>) + 2))

\* the first keyword that is a prefix of the lowercased trimmed remainder, <<>> if
\* the line has no marker or starts with no keyword
KeywordOf(line) ==
    LET hits == {k \in 1..Len(Keywords) :
                    HasMarker(line) /\ HasPrefix(ToLower(Remainder(line)), Keywords[k])}
    IN  IF hits = {} THEN <<>>
        ELSE Keywords[CHOOSE k \in hits : \A m \in hits : k <= m]

\* the comment text of a line that reaches a handler: the text between the first
\* marker and a second one, trimmed
CommentText(line) == TrimSpace(Split(line, <<"/","/">>)[2])

\* the text a directive line carries after its keyword
After(line) == TrimSpace(Drop(CommentText(line), Len(KeywordOf(line))))

-----------------------------------------------------------------------------
(* C3 *)

\* C3: a line with a comment marker invokes at most one handler, the one of the
\* first keyword of the ordered list that is a prefix of the lowercased trimmed
\* remainder (so "@description ..." goes through @description, never @desc); a
\* line without a marker or without a keyword leaves the record unchanged.
C3_FirstKeywordDispatch ==
    [][pc = "process" /\ i <= Len(sa) =>
         LET kw == KeywordOf(sa[i])
         IN  /\ Len(hcall') <= 1
             /\ kw = <<>> => hcall' = <<>> /\ d' = d
             /\ kw # <<>> => hcall' # <<>> /\ hcall'[1].cmd = kw]_vars

\* a line starting with @description has been dispatched, through @description
C3_Witness ==
    /\ pc = "process"
    /\ i = 2
    /\ sa[1] = <<"/","/"," ","@","d","e","s","c","r","i","p","t","i","o","n"," ","s","e","e"," ",":","i","d">>
    /\ hcall # <<>>
    /\ hcall[1].cmd = <<"@","d","e","s","c","r","i","p","t","i","o","n">>

-----------------------------------------------------------------------------
(* C4 *)

\* C4: the text passed to the handler is the full remainder of the line after the
\* first comment marker, trimmed, also when "//" occurs again in the line.
C4_FullRemainderPassed ==
    pc \in {"process", "panic"} /\ hcall # <<>> =>
        hcall[1].s = Remainder(sa[IF pc = "panic" THEN i ELSE i - 1])

-----------------------------------------------------------------------------
(* C5 *)

\* s contains sub, case-insensitively
ContainsFold(s, sub) ==
    \E k \in 0..Len(s) :
        k + Len(sub) <= Len(s) /\ ToLower(SubSeq(s, k + 1, k + Len(sub))) = sub

\* what one line adds to the method list
MethodsOfLine(line) ==
    IF KeywordOf(line) # <<"@","m","e","t","h","o","d">> THEN <<>>
    ELSE (IF ContainsFold(After(line), <<"g","e","t">>) THEN <<GET>> ELSE <<>>)
         \o (IF ContainsFold(After(line), <<"p","o","s","t">>) THEN <<POST>> ELSE <<>>)

RECURSIVE MethodsOfLines(_, _)
MethodsOfLines(block, n) ==
    IF n = 0 THEN <<>> ELSE MethodsOfLines(block, n - 1) \o MethodsOfLine(block[n])

-----------------------------------------------------------------------------
(* C6 *)

TitleLines(block, n) == {k \in 1..n : KeywordOf(block[k]) = <<"@","t","i","t","l","e">>}

\* C6: once a @title line has been processed, ID is Title lowercased with every
\* space removed and Filename is ID followed by ".html"; all three are those of
\* the last @title line, and no other directive changes any of them.
C6_SlugFromTitle ==
    pc = "process" =>
        IF TitleLines(sa, i - 1) = {}
        THEN d.Title = <<>> /\ d.ID = <<>> /\ d.Filename = <<>>
        ELSE LET last == CHOOSE k \in TitleLines(sa, i - 1) :
                             \A m \in TitleLines(sa, i - 1) : m <= k
             IN  /\ d.Title = After(sa[last])
                 /\ d.ID = SelectSeq(ToLower(d.Title), LAMBDA c : c # " ")
                 /\ d.Filename = d.ID \o <<".","h","t","m","l">>

\* a title with capitals and a space was set and another directive processed after
C6_Witness ==
    /\ pc = "process"
    /\ i = 3
    /\ sa[1] = <<"/","/"," ","@","t","i","t","l","e"," ","M","y"," ","S","v","c">>
    /\ KeywordOf(sa[2]) \notin {<<>>, <<"@","t","i","t","l","e">>}
    /\ d.ID = <<"m","y","s","v","c">>
    /\ d.Filename = <<"m","y","s","v","c",".","h","t","m","l">>

-----------------------------------------------------------------------------
(* C7 *)

\* the colon-marked terms of the pieces, each with its colon removed and the
\* glossary definition of its lowercase form
RECURSIVE GlossaryParts(_)
GlossaryParts(pieces) ==
    IF pieces = <<>> THEN <<>>
    ELSE (IF Contains(Head(pieces), <<":">>)
          THEN LET term == Stripchars(Head(pieces), <<":">>)
               IN  << [Term |-> term, Definition |-> getDefinition(ToLower(term))] >>
          ELSE <<>>) \o GlossaryParts(Tail(pieces))

\* the value half of a query parameter: what follows its first "="
ValueOf(param) == IF Contains(param, <<"=">>) THEN Drop(param, Index(param, <<"=">>) + 1) ELSE <<>>

\* parts of a URL without inline request object: path terms, then query terms
PartsOfURL(url) ==
    LET q      == Index(url, <<"?">>)
        path   == IF q >= 0 THEN Take(url, q) ELSE url
        params == IF q >= 0 THEN Split(Drop(url, q + 1), <<"&">>) ELSE <<>>
    IN  GlossaryParts(Split(path, <<"/">>))
            \o GlossaryParts([k \in 1..Len(params) |-> ValueOf(params[k])])

\* C7: for a @url line without inline request object the parts are the
\* colon-marked path segments in path order, then the colon-marked query values in
\* query order, each with the glossary definition of its lowercase form.
C7_PathThenQueryParts ==
    pc = "process" /\ i = 2 /\ Len(d.URLs) = 1 /\ ~Contains(d.URLs[1].URL, <<"r","e","q","u","e","s","t","=","{">>) =>
        d.URLs[1].Parts = PartsOfURL(d.URLs[1].URL)

-----------------------------------------------------------------------------
(* C8 *)

\* quote and brace punctuation removed
Unquoted(s) == Stripchars(s, <<"\"","{","}">>)

\* one (term, definition) per comma-separated piece of the object, split on the
\* piece's first ":"
RECURSIVE RequestParts(_)
RequestParts(pieces) ==
    IF pieces = <<>> THEN <<>>
    ELSE LET p == Head(pieces)
             c == Index(p, <<":">>)
         IN  << [Term       |-> Unquoted(IF c >= 0 THEN Take(p, c) ELSE p),
                 Definition |-> IF c >= 0 THEN Unquoted(Drop(p, c + 1)) ELSE <<>>] >>
             \o RequestParts(Tail(pieces))

\* the query of url, <<>> if it has none
QueryOf(url) == IF Contains(url, <<"?">>) THEN Drop(url, Index(url, <<"?">>) + 1) ELSE <<>>

\* C8: a query parameter that begins with request={ gives one (term, definition)
\* per comma-separated piece, in order: the key and the value around the piece's
\* first ":", both without quotes and braces, the value verbatim.
C8_RequestObjectParts ==
    pc = "process" /\ i = 2 /\ Len(d.URLs) = 1
        /\ HasPrefix(QueryOf(d.URLs[1].URL), <<"r","e","q","u","e","s","t","=","{">>)
        /\ ~Contains(QueryOf(d.URLs[1].URL), <<"&">>) =>
            d.URLs[1].Parts =
                GlossaryParts(Split(Take(d.URLs[1].URL, Index(d.URLs[1].URL, <<"?">>)), <<"/">>))
                    \o RequestParts(Split(Drop(QueryOf(d.URLs[1].URL), Len(<<"r","e","q","u","e","s","t","=","{">>)),
                                          <<",">>))

-----------------------------------------------------------------------------
(* Type strings handed to AnalyzeType: reflect's Type.String() of a field  *)

TypePrefixes ==
    {<<>>, <<"[","]">>, <<"*">>, <<"[","]","*">>, <<"m","a","p","[","s","t","r","i","n","g","]">>, <<"m","a","p","[","s","t","r","i","n","g","]","[","]">>, <<"m","a","p","[","a",".","K","e","y","]">>}

TypeQualifiers == {<<>>, <<"p","k","g",".">>}

TypeBases == {<<"s","t","r","i","n","g">>, <<"O","u","t","e","r">>, <<"L","e","a","f">>, <<"T","i","m","e">>}

TypeCorpus == {p \o q \o b : p \in TypePrefixes, q \in TypeQualifiers, b \in TypeBases}

InitType ==
    /\ WSTypeFactory \in Registries
    /\ pc = "types"
    /\ found = FALSE /\ lines = <<>> /\ sa = <<>> /\ i = 1 /\ d = EmptyData
    /\ TOC = <<>> /\ nscan = 0 /\ nblocks = 0 /\ nrender = 0 /\ hcall = <<>>
    /\ err = "none"
    /\ tin = None /\ tout = None /\ lvT = None /\ lv = None

CallAnalyzeType ==
    /\ pc = "types"
    /\ \E t \in TypeCorpus : tin' = t /\ tout' = AnalyzeType(t)
    /\ UNCHANGED <<pc, found, lines, sa, i, d, TOC, WSTypeFactory, nscan, nblocks,
                   nrender, hcall, err, lvT, lv>>

CallListVars ==
    /\ pc = "types"
    /\ \E t \in DOMAIN WSTypeFactory : lvT' = t /\ lv' = ListVars(t, <<>>)
    /\ UNCHANGED <<pc, found, lines, sa, i, d, TOC, WSTypeFactory, nscan, nblocks,
                   nrender, hcall, err, tin, tout>>

NextType == CallAnalyzeType \/ CallListVars

SpecType == InitType /\ [][NextType]_vars

-----------------------------------------------------------------------------
(* C9 *)

\* offset just past the last "." of s, 0 if there is none
AfterLastDot(s) ==
    IF \E k \in 1..Len(s) : s[k] = "."
    THEN CHOOSE k \in 1..Len(s) : s[k] = "." /\ \A m \in (k + 1)..Len(s) : s[m] # "."
    ELSE 0

SpecAnalyzeType(t) ==
    LET sl   == HasPrefix(t, <<"[","]">>)
        rest == IF sl THEN Drop(t, 2) ELSE t
        base == Drop(rest, AfterLastDot(rest))
    IN  [IsSlice |-> sl, Recurse |-> base \in DOMAIN WSTypeFactory, Tname |-> base]

\* C9: for every declared type string t, AnalyzeType(t) has isSlice exactly when t
\* has the prefix "[]", baseName = t without that prefix and without everything up
\* to and including the last ".", and isRecursive iff baseName is registered.
C9_AnalyzeTypeAsSpecified == tin # None => tout = SpecAnalyzeType(tin)

-----------------------------------------------------------------------------
(* C10 *)

\* the field paths of type t: sequences of field numbers, each step but the last
\* through a field whose base type is registered
RECURSIVE FieldPaths(_, _)
FieldPaths(t, depth) ==
    LET fields == WSTypeFactory[t]
    IN  UNION { {<<j>>} \cup
                (IF depth > 0 /\ AnalyzeType(fields[j].Type).Recurse
                 THEN {<<j>> \o p : p \in FieldPaths(AnalyzeType(fields[j].Type).Tname,
                                                     depth - 1)}
                 ELSE {}) : j \in 1..Len(fields) }

\* p before q in pre-order: p is a proper prefix of q, or p is smaller at the first
\* position where they differ
PreOrderLess(p, q) ==
    \/ Len(p) < Len(q) /\ Take(q, Len(p)) = p
    \/ \E k \in 1..Len(p) :
          /\ k <= Len(q)
          /\ Take(p, k - 1) = Take(q, k - 1)
          /\ p[k] < q[k]

\* display path of the field at path p of type t: one indentation unit per level,
\* then the enclosing type names with a "." each, then the field name
RECURSIVE TypeChain(_, _)
TypeChain(t, p) ==
    IF Len(p) <= 1 THEN <<>>
    ELSE LET b == AnalyzeType(WSTypeFactory[t][Head(p)].Type).Tname
         IN  b \o <<".">> \o TypeChain(b, Tail(p))

RECURSIVE FieldAt(_, _)
FieldAt(t, p) ==
    IF Len(p) = 1 THEN WSTypeFactory[t][Head(p)]
    ELSE FieldAt(AnalyzeType(WSTypeFactory[t][Head(p)].Type).Tname, Tail(p))

RECURSIVE Units(_)
Units(n) == IF n = 0 THEN <<>> ELSE Indent \o Units(n - 1)

DisplayPath(t, p) == Units(Len(p)) \o TypeChain(t, p) \o FieldAt(t, p).Name

PreOrderListing(t) ==
    LET P == FieldPaths(t, Cardinality(DOMAIN WSTypeFactory))
        rank(p) == Cardinality({q \in P : PreOrderLess(q, p)}) + 1
    IN  [k \in 1..Cardinality(P) |-> DisplayPath(t, CHOOSE p \in P : rank(p) = k)]

====
